---- MODULE Spec2Model ----
(***************************************************************************)
(* PunchPro (src/Home.py): a Streamlit script that cleans attendance       *)
(* spreadsheets.  The session keeps the uploaded file list; every script   *)
(* run walks the list and, per file, reads the raw table, finds the header *)
(* row, prunes columns, expands the "Punch Records" text into Time In /    *)
(* Time Out columns, computes Stay Durations and reorders the columns.     *)
(*                                                                         *)
(* Text is modelled as a sequence of one-character strings, a cell as a    *)
(* record [isna, s] (pandas NaN or a str), a DataFrame positionally as     *)
(* [columns, data] so that duplicate column labels keep their meaning.     *)
(***************************************************************************)
EXTENDS Integers, Sequences, FiniteSets, TLC

VARIABLES
    widget,          \* files held by the st.file_uploader widget (key "file_uploader")
    uploaded_files,  \* st.session_state.uploaded_files
    close_button,    \* the Close button is on the page (line 34 ran in the last run)
    legacy_rerun,    \* this Streamlit build has st.experimental_rerun
    xlsxwriter,      \* pandas finds the engine 'xlsxwriter' that line 187 names
    last_action,     \* the most recent upload / close action of the user
    pc,              \* position of the script run
    idx,             \* loop index of the batch loop (1-based here, enumerate is 0-based)
    df_raw,          \* df_raw of the file being processed
    header_row_idx,  \* header_row_idx of the file being processed
    df_clean,        \* df_clean of the file being processed
    punch_dicts,     \* df_clean['Punch Records'].apply(extract_multiple_in_out)
    exc,             \* the exception in flight inside the try block ("" when none)
    tabs             \* what the run has rendered, one entry per tab

vars == <<widget, uploaded_files, close_button, legacy_rerun, xlsxwriter, last_action, pc, idx,
          df_raw, header_row_idx, df_clean, punch_dicts, exc, tabs>>

----------------------------------------------------------------------------
(* Text *)

Min(a, b) == IF a <= b THEN a ELSE b

UPPERCASE == <<"A","B","C","D","E","F","G","H","I","J","K","L","M",
               "N","O","P","Q","R","S","T","U","V","W","X","Y","Z">>
LOWERCASE == <<"a","b","c","d","e","f","g","h","i","j","k","l","m",
               "n","o","p","q","r","s","t","u","v","w","x","y","z">>
DIGITS == <<"0","1","2","3","4","5","6","7","8","9">>
\* the ASCII characters str.strip() removes: space, \t, \n, \r, \f (0x0C), and
\* the control characters 0x0B, 0x1C, 0x1D, 0x1E, 0x1F, written here as the
\* characters themselves (TLA+ has no escape for them)
WHITESPACE == {" ", "\t", "\n", "\r", "\f", "", "", "", "", ""}

\* str.lower() on one character
LowerChar(c) ==
    IF \E i \in 1..Len(UPPERCASE) : UPPERCASE[i] = c
    THEN LOWERCASE[CHOOSE i \in 1..Len(UPPERCASE) : UPPERCASE[i] = c]
    ELSE c

\* str.lower()
Lower(s) == [i \in 1..Len(s) |-> LowerChar(s[i])]

\* \d of the regular expressions
IsDigit(c) == \E i \in 1..Len(DIGITS) : DIGITS[i] = c

DigitVal(c) == (CHOOSE i \in 1..Len(DIGITS) : DIGITS[i] = c) - 1

\* int() of a run of digits
RECURSIVE StrToInt(_)
StrToInt(s) ==
    IF s = <<>> THEN 0
    ELSE 10 * StrToInt(SubSeq(s, 1, Len(s) - 1)) + DigitVal(s[Len(s)])

\* str() of a non-negative integer, as an f-string renders it
RECURSIVE IntToStr(_)
IntToStr(n) ==
    IF n < 10 THEN <<DIGITS[n + 1]>>
    ELSE IntToStr(n \div 10) \o <<DIGITS[(n % 10) + 1]>>

\* the format spec ":02": sign-aware zero padding to width 2
Format02(n) ==
    IF n < 0 THEN <<"-">> \o IntToStr(-n)
    ELSE IF n < 10 THEN <<"0">> \o IntToStr(n)
    ELSE IntToStr(n)

\* s has the text lit at position p
HasAt(s, p, lit) ==
    /\ p >= 1
    /\ p + Len(lit) - 1 <= Len(s)
    /\ SubSeq(s, p, p + Len(lit) - 1) = lit

\* str.endswith(lit)
EndsWith(s, lit) == HasAt(s, Len(s) - Len(lit) + 1, lit)

\* the Python operator "needle in hay"
Contains(hay, needle) == \E p \in 1..(Len(hay) - Len(needle) + 1) : HasAt(hay, p, needle)

\* str.strip()
RECURSIVE LStrip(_)
LStrip(s) == IF s # <<>> /\ s[1] \in WHITESPACE THEN LStrip(Tail(s)) ELSE s
RECURSIVE RStrip(_)
RStrip(s) ==
    IF s # <<>> /\ s[Len(s)] \in WHITESPACE THEN RStrip(SubSeq(s, 1, Len(s) - 1)) ELSE s
Strip(s) == RStrip(LStrip(s))

\* the length of the maximal run of digits of s that starts at p (greedy \d+)
RECURSIVE DigitRun(_, _)
DigitRun(s, p) == IF p <= Len(s) /\ IsDigit(s[p]) THEN 1 + DigitRun(s, p + 1) ELSE 0

\* str.split(sep) for a one-character separator
RECURSIVE Split(_, _)
Split(s, sep) ==
    IF \E p \in 1..Len(s) : s[p] = sep
    THEN LET p == CHOOSE q \in 1..Len(s) :
                      s[q] = sep /\ \A r \in 1..(q - 1) : s[r] # sep
         IN  <<SubSeq(s, 1, p - 1)>> \o Split(SubSeq(s, p + 1, Len(s)), sep)
    ELSE <<s>>

----------------------------------------------------------------------------
(* Literals of the script *)

PUNCH_RECORDS == <<"P","u","n","c","h"," ","R","e","c","o","r","d","s">>
PUNCH_RECORDS_LOWER == <<"p","u","n","c","h"," ","r","e","c","o","r","d","s">>
S_NO == <<"S",".","N","o">>
TIME_IN == <<"T","i","m","e"," ","I","n">>
TIME_OUT == <<"T","i","m","e"," ","O","u","t">>
STAY_DURATION == <<"S","t","a","y"," ","D","u","r","a","t","i","o","n">>
NAN_TEXT == <<"n","a","n">>
TAG_IN == <<"(","i","n",")">>
EXT_CSV == <<".","c","s","v">>
TAG_OUT == <<"(","o","u","t",")">>

\* find_header_row scans range(min(10, len(df)))
HeaderScanRows == 10

\* Python's None, the result of find_header_row when no row matches
None == -1

----------------------------------------------------------------------------
(* Cells and tables *)

NaN == [isna |-> TRUE, s |-> <<>>]
Str(s) == [isna |-> FALSE, s |-> s]

\* Series.astype(str) on one cell
AsTypeStr(cell) == IF cell.isna THEN NAN_TEXT ELSE cell.s

\* Series.str.strip() on one cell: a cell that is not a str gives NaN
StrStrip(cell) == IF cell.isna THEN NaN ELSE Str(Strip(cell.s))

\* the positions of the columns whose label satisfies Test
Positions(columns, Test(_)) ==
    SelectSeq([j \in 1..Len(columns) |-> j], LAMBDA j : Test(columns[j]))

HasColumn(columns, label) == \E j \in 1..Len(columns) : columns[j] = Str(label)

\* the frame made of the columns at the positions pos, in that order
Take(df, pos) ==
    [columns |-> [k \in 1..Len(pos) |-> df.columns[pos[k]]],
     data    |-> [r \in 1..Len(df.data) |->
                     [k \in 1..Len(pos) |-> df.data[r][pos[k]]]]]

\* DataFrame.drop(columns=[label]): every column with that label goes
DropColumn(df, label) == Take(df, Positions(df.columns, LAMBDA c : c # Str(label)))

\* pd.concat([a, b], axis=1) of two frames over the same rows
ConcatColumns(a, b) ==
    [columns |-> a.columns \o b.columns,
     data    |-> [r \in 1..Len(a.data) |-> a.data[r] \o b.data[r]]]

\* a dict as the sequence of its items in insertion order
DictHas(d, key) == \E k \in 1..Len(d) : d[k].key = key
DictGet(d, key) == d[CHOOSE k \in 1..Len(d) : d[k].key = key].val
DictSet(d, key, val) ==
    IF DictHas(d, key)
    THEN [k \in 1..Len(d) |-> IF d[k].key = key THEN [key |-> key, val |-> val] ELSE d[k]]
    ELSE Append(d, [key |-> key, val |-> val])

----------------------------------------------------------------------------
(* find_header_row, lines 45-50 *)

\* any('punch records' in val for val in row_values)
RowMatches(row) ==
    \E j \in 1..Len(row) : Contains(Lower(AsTypeStr(row[j])), PUNCH_RECORDS_LOWER)

\* the for loop over range(min(10, len(df))), from index i on (0-based)
RECURSIVE FindHeaderFrom(_, _)
FindHeaderFrom(df, i) ==
    IF i >= Min(HeaderScanRows, Len(df)) THEN None
    ELSE IF RowMatches(df[i + 1]) THEN i
    ELSE FindHeaderFrom(df, i + 1)

\* find_header_row without the limit of 10 rows
RECURSIVE FindHeaderAnyRow(_, _)
FindHeaderAnyRow(df, i) ==
    IF i >= Len(df) THEN None
    ELSE IF RowMatches(df[i + 1]) THEN i
    ELSE FindHeaderAnyRow(df, i + 1)
find_header_row_unbounded(df) == FindHeaderAnyRow(df, 0)

find_header_row(df) == FindHeaderFrom(df, 0)

----------------------------------------------------------------------------
(* Header promotion and column pruning, lines 93-101 *)

\* lines 93-95: slice from the header row, promote it (stripped), drop it from the data
PromoteHeader(raw, h) ==
    LET sliced == SubSeq(raw, h + 1, Len(raw))
    IN  [columns |-> [j \in 1..Len(sliced[1]) |-> StrStrip(sliced[1][j])],
         data    |-> Tail(sliced)]

\* lines 98-99
DropSNo(df) == IF HasColumn(df.columns, S_NO) THEN DropColumn(df, S_NO) ELSE df

\* line 101: df_clean.loc[:, ~df_clean.columns.isna()]
DropNaNColumns(df) == Take(df, Positions(df.columns, LAMBDA c : ~c.isna))

CleanData(raw, h) == DropNaNColumns(DropSNo(PromoteHeader(raw, h)))

----------------------------------------------------------------------------
(* extract_multiple_in_out, lines 110-126 *)

\* \d{1,2}, greedy, at position p: the number of digits it takes (0: no digit)
HourLen(s, p) ==
    IF p + 1 <= Len(s) /\ IsDigit(s[p]) /\ IsDigit(s[p + 1]) THEN 2
    ELSE IF p <= Len(s) /\ IsDigit(s[p]) THEN 1
    ELSE 0

NoMatch == [len |-> 0, time_str |-> <<>>, status |-> ""]

\* the regular expression (\d{1,2}:\d{2}:\d{2})\((in|out)\) tried at position p
MatchAt(s, p) ==
    LET h == HourLen(s, p)
        q == p + h
    IN  IF /\ h > 0
           /\ q + 5 <= Len(s)
           /\ s[q] = ":"
           /\ IsDigit(s[q + 1]) /\ IsDigit(s[q + 2])
           /\ s[q + 3] = ":"
           /\ IsDigit(s[q + 4]) /\ IsDigit(s[q + 5])
        THEN IF HasAt(s, q + 6, TAG_IN)
             THEN [len |-> h + 6 + Len(TAG_IN), time_str |-> SubSeq(s, p, q + 5),
                   status |-> "in"]
             ELSE IF HasAt(s, q + 6, TAG_OUT)
             THEN [len |-> h + 6 + Len(TAG_OUT), time_str |-> SubSeq(s, p, q + 5),
                   status |-> "out"]
             ELSE NoMatch
        ELSE NoMatch

\* re.findall: the non-overlapping matches, left to right, from position p on
RECURSIVE FindAllFrom(_, _)
FindAllFrom(s, p) ==
    IF p > Len(s) THEN <<>>
    ELSE LET m == MatchAt(s, p)
         IN  IF m.len = 0 THEN FindAllFrom(s, p + 1)
             ELSE <<m>> \o FindAllFrom(s, p + m.len)

\* f"Time In {n}", f"Time Out {n}", f"Stay Duration {n}"
Label(kind, n) == kind \o <<" ">> \o IntToStr(n)

\* the in-tagged entry numbered by the position of the token among all tokens
StoreInShared(punch_dict, in_count, time_str) ==
    DictSet(punch_dict, Label(TIME_IN, Len(punch_dict) + 1), time_str)

\* the in-tagged entry: lines 119-121
StoreIn(punch_dict, in_count, time_str) ==
    DictSet(punch_dict, Label(TIME_IN, in_count), time_str)

\* the for loop of lines 118-124 from entry k on
RECURSIVE ExtractLoop(_, _, _, _, _)
ExtractLoop(entries, k, punch_dict, in_count, out_count) ==
    IF k > Len(entries) THEN punch_dict
    ELSE IF entries[k].status = "in"
    THEN ExtractLoop(entries, k + 1,
                     StoreIn(punch_dict, in_count, entries[k].time_str),
                     in_count + 1, out_count)
    ELSE IF entries[k].status = "out"
    THEN ExtractLoop(entries, k + 1,
                     DictSet(punch_dict, Label(TIME_OUT, out_count), entries[k].time_str),
                     in_count, out_count + 1)
    ELSE ExtractLoop(entries, k + 1, punch_dict, in_count, out_count)

extract_multiple_in_out(punch_record) ==
    IF punch_record.isna THEN <<>>
    ELSE ExtractLoop(FindAllFrom(Lower(punch_record.s), 1), 1, <<>>, 1, 1)

----------------------------------------------------------------------------
(* Expansion into columns, lines 129-130 *)

\* the keys of the dicts in order of first appearance (the order of the new
\* columns before the reordering of lines 159-177 fixes it)
RECURSIVE AddKeys(_, _, _)
AddKeys(keys, d, k) ==
    IF k > Len(d) THEN keys
    ELSE AddKeys(IF \E n \in 1..Len(keys) : keys[n] = d[k].key THEN keys
                 ELSE Append(keys, d[k].key), d, k + 1)
\* the columns taken from the first row's dict alone
UnionKeysFirstRow(keys, dicts, r) ==
    IF dicts = <<>> THEN keys ELSE AddKeys(keys, dicts[1], 1)

RECURSIVE UnionKeys(_, _, _)
UnionKeys(keys, dicts, r) ==
    IF r > Len(dicts) THEN keys
    ELSE UnionKeys(AddKeys(keys, dicts[r], 1), dicts, r + 1)

\* Series-of-dicts .apply(pd.Series) over at least one row: one column per key,
\* NaN where a row lacks it
ExpandedDf(dicts) ==
    LET keys == UnionKeys(<<>>, dicts, 1)
    IN  [columns |-> [k \in 1..Len(keys) |-> Str(keys[k])],
         data    |-> [r \in 1..Len(dicts) |->
                         [k \in 1..Len(keys) |->
                             IF DictHas(dicts[r], keys[k])
                             THEN Str(DictGet(dicts[r], keys[k]))
                             ELSE NaN]]]

\* df_clean['Punch Records'].apply(extract_multiple_in_out)
PunchDicts(df) ==
    LET j == CHOOSE n \in 1..Len(df.columns) : df.columns[n] = Str(PUNCH_RECORDS)
    IN  [r \in 1..Len(df.data) |-> extract_multiple_in_out(df.data[r][j])]

\* df_clean['Punch Records']: every column that carries the label
PunchRecordsOf(df) == Take(df, Positions(df.columns, LAMBDA c : c = Str(PUNCH_RECORDS)))

\* line 129: on a table without rows both apply calls return the empty object
\* they were given, still labelled Punch Records, and call nothing
ExpandedPunches(df) ==
    IF df.data = <<>> THEN PunchRecordsOf(df) ELSE ExpandedDf(PunchDicts(df))

\* line 130
ExpandPunches(df) == ConcatColumns(DropColumn(df, PUNCH_RECORDS), ExpandedPunches(df))

----------------------------------------------------------------------------
(* calculate_stay_durations, lines 133-157 *)

AllDigits(s) == \A p \in 1..Len(s) : IsDigit(s[p])

\* one field of the format "%H:%M:%S": one or two digits, at most max
\* (pandas reads %H as 2[0-3]|[0-1]\d|\d, %M as [0-5]\d|\d, %S as 6[0-1]|[0-5]\d|\d)
TimeField(s, max) == Len(s) \in {1, 2} /\ AllDigits(s) /\ StrToInt(s) <= max

\* a parse that checks the shape of the text and not the range of its fields
to_datetime_unchecked(text) ==
    LET f == Split(text, ":")
    IN  IF Len(f) = 3 /\ AllDigits(f[1]) /\ AllDigits(f[2]) /\ AllDigits(f[3])
        THEN [ok |-> TRUE,
              seconds |-> 3600 * StrToInt(f[1]) + 60 * StrToInt(f[2]) + StrToInt(f[3])]
        ELSE [ok |-> FALSE, seconds |-> 0]

\* pd.to_datetime(text, format="%H:%M:%S"): the seconds since midnight of the
\* day 1900-01-01, or ok = FALSE where the call raises
to_datetime(text) ==
    LET f == Split(text, ":")
    IN  IF Len(f) = 3 /\ TimeField(f[1], 23) /\ TimeField(f[2], 59) /\ TimeField(f[3], 61)
        THEN [ok |-> TRUE,
              seconds |-> 3600 * StrToInt(f[1]) + 60 * StrToInt(f[2]) + StrToInt(f[3])]
        ELSE [ok |-> FALSE, seconds |-> 0]

\* the duration with the minutes rounded to the nearest instead of floored
FormatDurationRounded(t_in, t_out) ==
    LET total == (t_out - t_in + 30) \div 60
    IN  Format02(total \div 60) \o <<":">> \o Format02(total % 60)

\* the duration with a day added when out is earlier than in
FormatDurationWrapped(t_in, t_out) ==
    LET diff == IF t_out < t_in THEN t_out - t_in + 86400 ELSE t_out - t_in
    IN  Format02(diff \div 3600) \o <<":">> \o Format02((diff \div 60) % 60)

\* lines 143-147: diff, total_minutes, hours, minutes, the formatted text.
\* total_minutes is a float; int(total_minutes // 60) is the floor of diff / 3600
\* and int(total_minutes % 60) the floor of the minutes left over.
FormatDuration(t_in, t_out) ==
    LET diff == t_out - t_in
        hours == diff \div 3600
        minutes == (diff \div 60) - 60 * hours
    IN  Format02(hours) \o <<":">> \o Format02(minutes)

\* lines 137-151 for one pair index: row.get gives a Series when the label is
\* duplicated, and its truth value raises into the bare except
StayDurationOf(columns, row, i) ==
    LET pin  == Positions(columns, LAMBDA c : c = Str(Label(TIME_IN, i)))
        pout == Positions(columns, LAMBDA c : c = Str(Label(TIME_OUT, i)))
    IN  IF Len(pin) > 1 \/ Len(pout) > 1 THEN <<>>
        ELSE LET time_in  == row[pin[1]]
                 time_out == row[pout[1]]
             IN  IF ~time_in.isna /\ ~time_out.isna
                 THEN LET t_in  == to_datetime(time_in.s)
                          t_out == to_datetime(time_out.s)
                      IN  IF t_in.ok /\ t_out.ok
                          THEN FormatDuration(t_in.seconds, t_out.seconds)
                          ELSE <<>>
                 ELSE <<>>

\* the while loop of lines 136-152 from pair index i on
RECURSIVE StayLoop(_, _, _, _)
StayLoop(columns, row, i, result) ==
    IF HasColumn(columns, Label(TIME_IN, i)) /\ HasColumn(columns, Label(TIME_OUT, i))
    THEN StayLoop(columns, row, i + 1,
                  DictSet(result, Label(STAY_DURATION, i), StayDurationOf(columns, row, i)))
    ELSE result

calculate_stay_durations(columns, row) == StayLoop(columns, row, 1, <<>>)

\* line 156: DataFrame.apply(axis=1) on a table without rows or without columns
\* returns a copy of the table; otherwise one column per key of the results
StayDurationsDf(df) ==
    IF df.data = <<>> \/ df.columns = <<>>
    THEN df
    ELSE ExpandedDf([r \in 1..Len(df.data) |->
                        calculate_stay_durations(df.columns, df.data[r])])

\* lines 156-157
AddStayDurations(df) == ConcatColumns(df, StayDurationsDf(df))

----------------------------------------------------------------------------
(* Column reordering, lines 159-177 *)

PUNCH_KINDS == <<TIME_IN, TIME_OUT, STAY_DURATION>>

\* re.match of "<kind> \d+" at the start of col; text after the digits is allowed
MatchKind(col, kind) ==
    HasAt(col, 1, kind \o <<" ">>) /\ DigitRun(col, Len(kind) + 2) >= 1

\* line 160: re.match(r'Time (In|Out) \d+|Stay Duration \d+', col)
IsPunchColumn(col) == \E n \in 1..Len(PUNCH_KINDS) : MatchKind(col, PUNCH_KINDS[n])

\* line 163: m.group(1) and int(m.group(2)) of (Time In|Time Out|Stay Duration) (\d+)
MatchGroup1(col) == PUNCH_KINDS[CHOOSE n \in 1..Len(PUNCH_KINDS) : MatchKind(col, PUNCH_KINDS[n])]
MatchGroup2(col) ==
    LET from == Len(MatchGroup1(col)) + 2
    IN  StrToInt(SubSeq(col, from, from + DigitRun(col, from) - 1))

\* line 160
FixedCols(columns) == SelectSeq(columns, LAMBDA c : ~IsPunchColumn(c.s))

\* line 166: punches.setdefault(group, {})[m.group(1)] = col
PunchesSet(punches, group, kind, col) ==
    DictSet(punches, group,
            DictSet(IF DictHas(punches, group) THEN DictGet(punches, group) ELSE <<>>,
                    kind, col))

\* the for loop of lines 162-166 from column j on
RECURSIVE BuildPunches(_, _, _)
BuildPunches(columns, j, punches) ==
    IF j > Len(columns) THEN punches
    ELSE IF IsPunchColumn(columns[j].s)
    THEN BuildPunches(columns, j + 1,
                      PunchesSet(punches, MatchGroup2(columns[j].s),
                                 MatchGroup1(columns[j].s), columns[j]))
    ELSE BuildPunches(columns, j + 1, punches)

\* sorted() of a set of integers
RECURSIVE Sorted(_)
Sorted(S) ==
    IF S = {} THEN <<>>
    ELSE LET m == CHOOSE x \in S : \A y \in S : x <= y
         IN  <<m>> \o Sorted(S \ {m})

\* punches[i].get(kind, f"{kind} {i}")
PunchesGet(punches, i, kind) ==
    IF DictHas(DictGet(punches, i), kind) THEN DictGet(DictGet(punches, i), kind)
    ELSE Str(Label(kind, i))

\* lines 168-174
RECURSIVE ReorderedFrom(_, _, _)
ReorderedFrom(punches, groups, k) ==
    IF k > Len(groups) THEN <<>>
    ELSE <<PunchesGet(punches, groups[k], TIME_IN),
           PunchesGet(punches, groups[k], TIME_OUT),
           PunchesGet(punches, groups[k], STAY_DURATION)>>
         \o ReorderedFrom(punches, groups, k + 1)

ReorderedPunchCols(columns) ==
    LET punches == BuildPunches(columns, 1, <<>>)
    IN  ReorderedFrom(punches, Sorted({punches[k].key : k \in 1..Len(punches)}), 1)

\* line 176
FinalCols(columns) == FixedCols(columns) \o ReorderedPunchCols(columns)

\* df[[labels]]: for each label of the list, every column that carries it
RECURSIVE SelectPositions(_, _, _)
SelectPositions(columns, labels, k) ==
    IF k > Len(labels) THEN <<>>
    ELSE Positions(columns, LAMBDA c : c = labels[k])
         \o SelectPositions(columns, labels, k + 1)

\* line 177
ReorderColumns(df) ==
    LET final_cols == FinalCols(df.columns)
        present == SelectSeq(final_cols,
                             LAMBDA col : \E j \in 1..Len(df.columns) : df.columns[j] = col)
    IN  Take(df, SelectPositions(df.columns, present, 1))

----------------------------------------------------------------------------
(* The script run: session state, lines 7-42, and the batch loop, lines 53-205 *)

ERR_NO_HEADER == "No header row containing 'Punch Records' found."
ERR_NO_COLUMN == "Missing 'Punch Records' column"
ERR_UNREADABLE == "the file could not be read"
ERR_AMBIGUOUS == "The truth value of a Series is ambiguous."
ERR_EMPTY_DATA == "No columns to parse from file"
ERR_DUPLICATE == "Duplicate column names found"
ERR_NO_ENGINE == "No module named 'xlsxwriter'"

NoFrame == [columns |-> <<>>, data |-> <<>>]

\* line 54: st.tabs, one empty tab per file name
EmptyTab(file) ==
    [name |-> file.name, warning |-> FALSE, error |-> "", table |-> <<>>, download |-> <<>>]
NewTabs(files) == [i \in 1..Len(files) |-> EmptyTab(files[i])]

\* the for statement of line 56 after iteration i of n: the next position
LoopNext(i, n) == IF i < n THEN "read" ELSE "idle"

\* where the run goes after the except clause of lines 201-202 in iteration i of n
ExceptNext(i, n) == LoopNext(i, n)

\* lines 8-42 and 53-54 of one script run; clicked: st.button("Close") returns True
RunTop(w, clicked) ==
    LET after_upload == IF w # <<>> THEN w ELSE uploaded_files
        button == after_upload # <<>>
        closing == button /\ clicked
        files == IF closing THEN <<>> ELSE after_upload
    IN  /\ uploaded_files' = files
        /\ close_button' = button
        /\ df_raw' = <<>>
        /\ header_row_idx' = None
        /\ df_clean' = NoFrame
        /\ punch_dicts' = <<>>
        /\ exc' = ""
        /\ idx' = 1
        /\ IF closing /\ legacy_rerun
           THEN pc' = "rerun" /\ tabs' = <<>>
           ELSE IF files # <<>>
           THEN pc' = "read" /\ tabs' = NewTabs(files)
           ELSE pc' = "idle" /\ tabs' = <<>>

\* lines 64-69: pd.read_csv reads the stream from where it stands and leaves it
\* at its end; on a stream already at its end it raises EmptyDataError, which
\* the except clause of line 68 does not catch
ReadCsv(file) ==
    IF file.eof
    THEN /\ df_raw' = df_raw /\ exc' = ERR_EMPTY_DATA /\ pc' = "except"
         /\ UNCHANGED uploaded_files
    ELSE /\ IF file.readable
            THEN df_raw' = file.raw /\ exc' = "" /\ pc' = "find_header"
            ELSE df_raw' = df_raw /\ exc' = ERR_UNREADABLE /\ pc' = "except"
         /\ uploaded_files' = [uploaded_files EXCEPT ![idx].eof = TRUE]

\* lines 71-85: pd.read_excel rewinds the stream before it reads, so the
\* position of the stream plays no part
ReadExcel(file) ==
    /\ IF file.readable
       THEN df_raw' = file.raw /\ exc' = "" /\ pc' = "find_header"
       ELSE df_raw' = df_raw /\ exc' = ERR_UNREADABLE /\ pc' = "except"
    /\ UNCHANGED uploaded_files

\* lines 62-85: the read, with its fallbacks, gives df_raw or raises
ReadFile ==
    /\ pc = "read"
    /\ LET file == uploaded_files[idx]
           filename == Lower(file.name)
       IN  IF EndsWith(filename, EXT_CSV) THEN ReadCsv(file) ELSE ReadExcel(file)
    /\ UNCHANGED <<widget, close_button, legacy_rerun, xlsxwriter, last_action, idx,
                   header_row_idx, df_clean, punch_dicts, tabs>>

\* lines 88-90
FindHeader ==
    /\ pc = "find_header"
    /\ header_row_idx' = find_header_row(df_raw)
    /\ IF header_row_idx' = None
       THEN exc' = ERR_NO_HEADER /\ pc' = "except"
       ELSE exc' = "" /\ pc' = "clean"
    /\ UNCHANGED <<widget, uploaded_files, close_button, legacy_rerun, xlsxwriter, last_action, idx,
                   df_raw, df_clean, punch_dicts, tabs>>

\* lines 93-101
CleanColumns ==
    /\ pc = "clean"
    /\ df_clean' = CleanData(df_raw, header_row_idx)
    /\ pc' = "check_column"
    /\ UNCHANGED <<widget, uploaded_files, close_button, legacy_rerun, xlsxwriter, last_action, idx,
                   df_raw, header_row_idx, punch_dicts, exc, tabs>>

\* lines 104-107
CheckColumn ==
    /\ pc = "check_column"
    /\ IF HasColumn(df_clean.columns, PUNCH_RECORDS)
       THEN exc' = "" /\ pc' = "extract" /\ tabs' = tabs
       ELSE /\ exc' = ERR_NO_COLUMN
            /\ pc' = "except"
            /\ tabs' = [tabs EXCEPT ![idx].warning = TRUE]
    /\ UNCHANGED <<widget, uploaded_files, close_button, legacy_rerun, xlsxwriter, last_action, idx,
                   df_raw, header_row_idx, df_clean, punch_dicts>>

\* lines 129-130; with two columns labelled Punch Records the selection is a
\* frame, extract_multiple_in_out gets a Series and "if pd.isna(...)" raises
\* (a frame without rows is returned as it is, and nothing is raised)
ExtractPunches ==
    /\ pc = "extract"
    /\ IF /\ Len(PunchRecordsOf(df_clean).columns) > 1
          /\ df_clean.data # <<>>
       THEN /\ exc' = ERR_AMBIGUOUS
            /\ pc' = "except"
            /\ UNCHANGED <<df_clean, punch_dicts>>
       ELSE /\ punch_dicts' = PunchDicts(df_clean)
            /\ df_clean' = ExpandPunches(df_clean)
            /\ exc' = ""
            /\ pc' = "durations"
    /\ UNCHANGED <<widget, uploaded_files, close_button, legacy_rerun, xlsxwriter, last_action, idx,
                   df_raw, header_row_idx, tabs>>

\* lines 156-157
CalculateDurations ==
    /\ pc = "durations"
    /\ df_clean' = AddStayDurations(df_clean)
    /\ pc' = "reorder"
    /\ UNCHANGED <<widget, uploaded_files, close_button, legacy_rerun, xlsxwriter, last_action, idx,
                   df_raw, header_row_idx, punch_dicts, exc, tabs>>

\* lines 160-177
Reorder ==
    /\ pc = "reorder"
    /\ df_clean' = ReorderColumns(df_clean)
    /\ pc' = "show"
    /\ UNCHANGED <<widget, uploaded_files, close_button, legacy_rerun, xlsxwriter, last_action, idx,
                   df_raw, header_row_idx, punch_dicts, exc, tabs>>

\* Index.is_unique of the column labels
IsUnique(columns) == \A j, k \in 1..Len(columns) : j # k => columns[j] # columns[k]

\* lines 180-199: the table, the workbook of the download button, then the next
\* file. st.dataframe (line 180) raises on labels that are not unique, before
\* anything is shown; pd.ExcelWriter (line 187) raises without its engine,
\* after the table is shown
ShowCleaned ==
    /\ pc = "show"
    /\ IF ~IsUnique(df_clean.columns)
       THEN /\ exc' = ERR_DUPLICATE
            /\ pc' = "except"
            /\ UNCHANGED <<tabs, idx>>
       ELSE IF ~xlsxwriter
       THEN /\ tabs' = [tabs EXCEPT ![idx].table = <<df_clean>>]
            /\ exc' = ERR_NO_ENGINE
            /\ pc' = "except"
            /\ UNCHANGED idx
       ELSE /\ tabs' = [tabs EXCEPT ![idx].table = <<df_clean>>,
                                    ![idx].download = <<df_clean>>]
            /\ pc' = LoopNext(idx, Len(uploaded_files))
            /\ idx' = idx + 1
            /\ UNCHANGED exc
    /\ UNCHANGED <<widget, uploaded_files, close_button, legacy_rerun, xlsxwriter, last_action,
                   df_raw, header_row_idx, df_clean, punch_dicts>>

\* lines 201-202: st.error in the tab, then the next file
HandleError ==
    /\ pc = "except"
    /\ tabs' = [tabs EXCEPT ![idx].error = exc]
    /\ exc' = ""
    /\ pc' = ExceptNext(idx, Len(uploaded_files))
    /\ idx' = idx + 1
    /\ UNCHANGED <<widget, uploaded_files, close_button, legacy_rerun, xlsxwriter, last_action,
                   df_raw, header_row_idx, df_clean, punch_dicts>>

\* the try block of one file and its except clause
NextFile ==
    \/ ReadFile
    \/ FindHeader
    \/ CleanColumns
    \/ CheckColumn
    \/ ExtractPunches
    \/ CalculateDurations
    \/ Reorder
    \/ ShowCleaned
    \/ HandleError

----------------------------------------------------------------------------
(* The user and the browser session, lines 7-42 *)

\* the user picks files in the uploader: the widget holds them, the script runs
Upload(fs) ==
    /\ pc = "idle"
    /\ fs # <<>>
    /\ widget' = fs
    /\ last_action' = [kind |-> "upload", files |-> fs]
    /\ RunTop(fs, FALSE)
    /\ UNCHANGED <<legacy_rerun, xlsxwriter>>

\* the user removes the files from the uploader: the widget is empty, the script runs
RemoveFiles ==
    /\ pc = "idle"
    /\ widget # <<>>
    /\ widget' = <<>>
    /\ RunTop(<<>>, FALSE)
    /\ UNCHANGED <<legacy_rerun, xlsxwriter, last_action>>

\* the user clicks Close: the script runs with st.button returning True
ClickClose ==
    /\ pc = "idle"
    /\ close_button
    /\ last_action' = [kind |-> "close", files |-> <<>>]
    /\ RunTop(widget, TRUE)
    /\ UNCHANGED <<widget, legacy_rerun, xlsxwriter>>

\* the user reruns the page with nothing changed
Rerun ==
    /\ pc = "idle"
    /\ RunTop(widget, FALSE)
    /\ UNCHANGED <<widget, legacy_rerun, xlsxwriter, last_action>>

\* line 37: st.experimental_rerun() stops the run and starts the script again
RerunScript ==
    /\ pc = "rerun"
    /\ RunTop(widget, FALSE)
    /\ UNCHANGED <<widget, legacy_rerun, xlsxwriter, last_action>>

----------------------------------------------------------------------------
(* Inputs *)

MaxBatch == 2       \* files in one upload
MaxDataRows == 2    \* data rows of a table
MaxTokens == 3      \* pieces of text in one Punch Records cell
MaxLead == 11       \* rows above the header row
MaxHeaderCols == 3  \* header cells of a table

\* the pieces Punch Records cells are made of, with what each one is:
\* its tag and its hour, minute and second fields
PIECES == <<
    [text |-> <<"0","9",":","0","0",":","0","0","(","i","n",")">>,
     tag |-> "in", h |-> 9, m |-> 0, s |-> 0],
    [text |-> <<"1","3",":","0","0",":","0","0","(","o","u","t",")">>,
     tag |-> "out", h |-> 13, m |-> 0, s |-> 0],
    [text |-> <<"1","4",":","0","0",":","0","0","(","i","n",")">>,
     tag |-> "in", h |-> 14, m |-> 0, s |-> 0],
    [text |-> <<"1","8",":","3","0",":","0","0","(","o","u","t",")">>,
     tag |-> "out", h |-> 18, m |-> 30, s |-> 0],
    [text |-> <<"8",":","3","0",":","4","5","(","I","N",")">>,
     tag |-> "in", h |-> 8, m |-> 30, s |-> 45],
    [text |-> <<"1","7",":","1","5",":","1","0","(","O","u","t",")">>,
     tag |-> "out", h |-> 17, m |-> 15, s |-> 10],
    [text |-> <<"0","5",":","3","0",":","0","0","(","o","u","t",")">>,
     tag |-> "out", h |-> 5, m |-> 30, s |-> 0],
    [text |-> <<"9","9",":","9","9",":","9","9","(","i","n",")">>,
     tag |-> "in", h |-> 99, m |-> 99, s |-> 99],
    [text |-> <<"2","5",":","9","9",":","0","0","(","o","u","t",")">>,
     tag |-> "out", h |-> 25, m |-> 99, s |-> 0],
    [text |-> <<"1","2",":","0","0","(","i","n",")">>,
     tag |-> "none", h |-> 0, m |-> 0, s |-> 0],
    [text |-> <<" ","l","u","n","c","h"," ">>,
     tag |-> "none", h |-> 0, m |-> 0, s |-> 0],
    [text |-> <<"0","9",":","0","0",":","3","0","(","i","n",")">>,
     tag |-> "in", h |-> 9, m |-> 0, s |-> 30],
    [text |-> <<"1","3",":","3","0",":","0","0","(","o","u","t",")">>,
     tag |-> "out", h |-> 13, m |-> 30, s |-> 0]>>

RECURSIVE Concat(_)
Concat(ps) == IF ps = <<>> THEN <<>> ELSE PIECES[ps[1]].text \o Concat(Tail(ps))

\* every sequence over S of length at most n
RECURSIVE SeqsUpTo(_, _)
SeqsUpTo(S, n) ==
    IF n = 0 THEN {<<>>}
    ELSE LET shorter == SeqsUpTo(S, n - 1)
         IN  shorter \cup {Append(q, x) : q \in shorter, x \in S}

PunchCell(ps) == Str(Concat(ps))

TXT_NAME == <<"N","a","m","e">>
TXT_NAME_PADDED == <<" ","\f","N","a","m","e","\t">>
TXT_DEPT == <<"D","e","p","t">>
TXT_TIME == <<"T","i","m","e">>
TXT_TITLE == <<"E","m","p","l","o","y","e","e"," ","P","u","n","c","h"," ","R","e","c","o","r","d","s"," ","R","e","p","o","r","t">>
TXT_UPPER == <<" ","P","U","N","C","H"," ","R","E","C","O","R","D","S"," ">>
TXT_NEAR == <<"p","u","n","c","h"," ","r","e","c","o","r","d">>
TXT_ATTENDANCE == <<"A","t","t","e","n","d","a","n","c","e">>
TXT_MANUAL == <<"T","i","m","e"," ","O","u","t"," ","1"," ","(","m","a","n","u","a","l",")">>

\* the cell of a fixed column in data row r: the employee of that row
Employee(r) == Str(<<"E">> \o IntToStr(r))

\* a table with header S.No | Name | Punch Records and one data row per cell
PunchTable(cells) ==
    <<<<Str(S_NO), Str(TXT_NAME_PADDED), Str(PUNCH_RECORDS)>>>>
    \o [r \in 1..Len(cells) |-> <<Str(IntToStr(r)), Employee(r), cells[r]>>]

\* an uploaded file as the uploader hands it over: its stream at the start
File(name, raw) == [name |-> name, readable |-> TRUE, raw |-> raw, eof |-> FALSE]

FILE_GOOD == File(<<"m","a","r","c","h",".","c","s","v">>, PunchTable(<<PunchCell(<<1, 2, 3, 4>>), NaN>>))
FILE_NO_HEADER ==
    File(<<"n","o","t","e","s",".","c","s","v">>, <<<<Str(TXT_NAME), Str(TXT_TIME)>>, <<Employee(1), Str(TXT_NEAR)>>>>)
FILE_NO_COLUMN ==
    File(<<"r","e","p","o","r","t",".","x","l","s","x">>, <<<<Str(TXT_TITLE), NaN>>,
                          <<Str(TXT_NAME), Str(PUNCH_RECORDS)>>,
                          <<Employee(1), PunchCell(<<1>>)>>>>)
FILE_UNREADABLE == [name |-> <<"b","r","o","k","e","n",".","x","l","s">>, readable |-> FALSE, raw |-> <<>>, eof |-> FALSE]
FILE_SHEET == File(<<"A","p","r","i","l",".","X","L","S","X">>, PunchTable(<<PunchCell(<<5, 6>>)>>))
FILE_NO_ROWS == File(<<"e","m","p","t","y",".","c","s","v">>, PunchTable(<<>>))

BatchFiles ==
    {FILE_GOOD, FILE_SHEET, FILE_NO_HEADER, FILE_NO_COLUMN, FILE_UNREADABLE, FILE_NO_ROWS}
Batches == SeqsUpTo(BatchFiles, MaxBatch)

\* cells of the single-cell tables: every sequence of at most MaxTokens of these pieces
EXTRACT_PIECES == {1, 2, 5, 6, 8, 10, 11}
ExtractCells == {NaN} \cup {PunchCell(ps) : ps \in SeqsUpTo(EXTRACT_PIECES, MaxTokens)}
ExtractFiles ==
    {File(<<"c","e","l","l",".","c","s","v">>, <<<<Str(PUNCH_RECORDS)>>, <<cell>>>>) : cell \in ExtractCells}
    \cup {FILE_NO_HEADER}

\* cells of the tables with several rows
TABLE_CELL_PIECES ==
    {<<1, 2, 3, 4>>, <<1>>, <<5, 6>>, <<12, 2>>, <<3, 7>>, <<3, 13>>, <<12, 7>>,
     <<8, 2>>, <<1, 9>>, <<2, 1, 3>>, <<11>>, <<10, 4>>}
TableCells == {NaN} \cup {PunchCell(ps) : ps \in TABLE_CELL_PIECES}
TableFiles ==
    {File(<<"t","a","b","l","e",".","c","s","v">>, PunchTable(cells)) :
        cells \in SeqsUpTo(TableCells, MaxDataRows)}
    \cup {FILE_NO_HEADER}

\* tables whose header row comes after some other rows
JunkRows == {<<NaN, NaN>>, <<Str(TXT_ATTENDANCE), Str(TXT_NAME)>>, <<Str(TXT_NEAR), NaN>>}
HeaderBodies ==
    {<<>>,
     <<<<Str(TXT_NAME), Str(TXT_TIME)>>, <<Employee(1), Str(TXT_NEAR)>>>>,
     <<<<Str(TXT_NAME), Str(PUNCH_RECORDS)>>>>,
     <<<<Str(TXT_NAME), Str(PUNCH_RECORDS)>>, <<Employee(1), PunchCell(<<1, 2>>)>>>>,
     <<<<Str(TXT_UPPER), Str(TXT_NAME)>>, <<PunchCell(<<1, 2>>), Employee(1)>>>>,
     <<<<Str(TXT_TITLE), NaN>>,
       <<Str(TXT_NAME), Str(PUNCH_RECORDS)>>,
       <<Employee(1), PunchCell(<<1>>)>>>>}
LeadRows(k, junk) == [i \in 1..k |-> junk]
HeaderFiles ==
    {File(<<"l","e","a","d",".","c","s","v">>, LeadRows(k, junk) \o body) :
        k \in 0..MaxLead, junk \in JunkRows, body \in HeaderBodies}
    \ {File(<<"l","e","a","d",".","c","s","v">>, <<>>)}

\* tables with any header row over these names and one data row or none
HeaderNames ==
    {Str(TXT_NAME_PADDED), Str(TXT_DEPT), Str(S_NO), NaN, Str(PUNCH_RECORDS), Str(TXT_MANUAL)}
ReorderCells == {NaN, PunchCell(<<1>>), PunchCell(<<1, 2>>)}
HeaderTable(header, cell) ==
    <<header,
      [j \in 1..Len(header) |->
          IF header[j] = Str(PUNCH_RECORDS) THEN cell ELSE Str(<<"v">> \o IntToStr(j))]>>
Distinct(q) == \A j, k \in 1..Len(q) : j # k => q[j] # q[k]
ReorderFiles ==
    {File(<<"c","o","l","u","m","n","s",".","c","s","v">>, HeaderTable(header, cell)) :
        header \in {q \in SeqsUpTo(HeaderNames, MaxHeaderCols) : q # <<>> /\ Distinct(q)},
        cell \in ReorderCells}
    \cup {File(<<"c","o","l","u","m","n","s",".","c","s","v">>, <<header>>) :
             header \in {q \in SeqsUpTo(HeaderNames, MaxHeaderCols) : q # <<>> /\ Distinct(q)}}

----------------------------------------------------------------------------
(* Specifications *)

\* the session after the first run of the script: nothing uploaded, the info message
Init ==
    /\ widget = <<>>
    /\ uploaded_files = <<>>
    /\ close_button = FALSE
    /\ legacy_rerun \in BOOLEAN
    /\ xlsxwriter \in BOOLEAN
    /\ last_action = [kind |-> "none", files |-> <<>>]
    /\ pc = "idle"
    /\ idx = 1
    /\ df_raw = <<>>
    /\ header_row_idx = None
    /\ df_clean = NoFrame
    /\ punch_dicts = <<>>
    /\ exc = ""
    /\ tabs = <<>>

Next ==
    \/ \E fs \in Batches : Upload(fs)
    \/ RemoveFiles
    \/ ClickClose
    \/ Rerun
    \/ RerunScript
    \/ NextFile

Spec == Init /\ [][Next]_vars

\* a run that has just reached the batch loop with the one uploaded file f
InitFile(f) ==
    /\ widget = <<f>>
    /\ uploaded_files = <<f>>
    /\ close_button = TRUE
    /\ legacy_rerun = FALSE
    /\ xlsxwriter \in BOOLEAN
    /\ last_action = [kind |-> "upload", files |-> <<f>>]
    /\ pc = "read"
    /\ idx = 1
    /\ df_raw = <<>>
    /\ header_row_idx = None
    /\ df_clean = NoFrame
    /\ punch_dicts = <<>>
    /\ exc = ""
    /\ tabs = NewTabs(<<f>>)

InitHeader == \E f \in HeaderFiles : InitFile(f)
SpecHeader == InitHeader /\ [][NextFile]_vars

InitExtract == \E f \in ExtractFiles : InitFile(f)
SpecExtract == InitExtract /\ [][NextFile]_vars

InitTable == \E f \in TableFiles : InitFile(f)
SpecTable == InitTable /\ [][NextFile]_vars

InitReorder == \E f \in ReorderFiles : InitFile(f)
SpecReorder == InitReorder /\ [][NextFile]_vars

----------------------------------------------------------------------------
(* What the properties speak about *)

\* the uploaded file of a run over one file, and the table its tab shows
TheFile == uploaded_files[1]
Finished == pc = "idle" /\ Len(tabs) = 1
TableShown == Finished /\ tabs[1].table # <<>>
Output == tabs[1].table[1]

ColumnOf(df, label) == CHOOSE j \in 1..Len(df.columns) : df.columns[j] = Str(label)
CellOf(df, r, label) == df.data[r][ColumnOf(df, label)]

\* the pieces a cell was made of, read back from its text
RECURSIVE Decode(_)
Decode(text) ==
    IF text = <<>> THEN <<>>
    ELSE LET p == CHOOSE n \in 1..Len(PIECES) : HasAt(text, 1, PIECES[n].text)
         IN  <<p>> \o Decode(SubSeq(text, Len(PIECES[p].text) + 1, Len(text)))
PiecesOf(cell) == IF cell.isna THEN <<>> ELSE Decode(cell.s)
InsOf(cell) == SelectSeq(PiecesOf(cell), LAMBDA p : PIECES[p].tag = "in")
OutsOf(cell) == SelectSeq(PiecesOf(cell), LAMBDA p : PIECES[p].tag = "out")

\* the time a token shows: its text up to the bracket of the tag
TimeText(p) ==
    LET text == PIECES[p].text
        open == CHOOSE q \in 1..Len(text) : text[q] = "("
    IN  SubSeq(text, 1, open - 1)
ValidTime(p) == PIECES[p].h <= 23 /\ PIECES[p].m <= 59 /\ PIECES[p].s <= 59
SecondsOf(p) == 3600 * PIECES[p].h + 60 * PIECES[p].m + PIECES[p].s

\* the first row of the uploaded table is a header row with a Punch Records cell
HasPunchHeader ==
    \E j \in 1..Len(TheFile.raw[1]) : TheFile.raw[1][j] = Str(PUNCH_RECORDS)

\* the Punch Records cell of data row r of the uploaded table
InputCell(r) == TheFile.raw[r + 1][CHOOSE j \in 1..Len(TheFile.raw[1]) :
                                      TheFile.raw[1][j] = Str(PUNCH_RECORDS)]

----------------------------------------------------------------------------
(* C2 *)

C2_CellMatches(cell) ==
    LET text == IF cell.isna THEN <<"n","a","n">> ELSE cell.s
    IN  \E p \in 1..Len(text) :
            /\ p + 12 <= Len(text)
            /\ \A k \in 1..13 : LowerChar(text[p + k - 1]) = PUNCH_RECORDS_LOWER[k]
C2_RowMatches(raw, i) == \E j \in 1..Len(raw[i + 1]) : C2_CellMatches(raw[i + 1][j])
C2_Candidates(raw) == {i \in 0..(Min(10, Len(raw)) - 1) : C2_RowMatches(raw, i)}

\* C2: once find_header_row has run on a table, header_row_idx is the smallest
\* index i < min(10, rows) of a row with a cell that, as lowercased text,
\* contains "punch records"; when there is no such row among the first 10
\* (also when rows from index 10 on match) it is None and the file ends with
\* the missing-header error and no table.
C2_HeaderRow ==
    pc \notin {"read", "find_header"} =>
        LET cands == C2_Candidates(TheFile.raw)
        IN  IF cands = {}
            THEN /\ header_row_idx = None
                 /\ pc = "except" => exc = ERR_NO_HEADER
                 /\ pc = "idle" => tabs[1].error = ERR_NO_HEADER /\ tabs[1].table = <<>>
            ELSE /\ header_row_idx \in cands
                 /\ \A i \in cands : header_row_idx <= i

\* a table whose row 3 holds "Employee Punch Records Report", with a later
\* matching row and none before: the header row found is 3
C2_Witness ==
    /\ pc = "clean"
    /\ header_row_idx = 3
    /\ Len(df_raw) > 4
    /\ df_raw[4][1] = Str(TXT_TITLE)
    /\ C2_RowMatches(df_raw, 4)
    /\ \A i \in 0..2 : ~C2_RowMatches(df_raw, i)

\* a table whose only matching rows are at index 10 or later ends with the
\* missing-header error
C2_WitnessLate ==
    /\ Finished
    /\ tabs[1].error = ERR_NO_HEADER
    /\ \E i \in 10..(Len(df_raw) - 1) : C2_RowMatches(df_raw, i)

----------------------------------------------------------------------------
(* C3 *)

C3_Keys(d) == {d[k].key : k \in 1..Len(d)}

\* C3: the mapping extract_multiple_in_out returns for a cell has the k-th
\* in-tagged token of the text under "Time In k" and the k-th out-tagged token
\* under "Time Out k", whatever the interleaving, one key per token and no
\* other key; the mapping of a blank cell is empty.
C3_PositionalPairing ==
    (pc \in {"durations", "reorder", "show"} \/ TableShown) =>
        LET cell == InputCell(1)
            d == punch_dicts[1]
            ins == InsOf(cell)
            outs == OutsOf(cell)
        IN  /\ Len(d) = Len(ins) + Len(outs)
            /\ Cardinality(C3_Keys(d)) = Len(d)
            /\ \A k \in 1..Len(ins) :
                  /\ DictHas(d, TIME_IN \o <<" ">> \o IntToStr(k))
                  /\ DictGet(d, TIME_IN \o <<" ">> \o IntToStr(k)) = TimeText(ins[k])
            /\ \A k \in 1..Len(outs) :
                  /\ DictHas(d, TIME_OUT \o <<" ">> \o IntToStr(k))
                  /\ DictGet(d, TIME_OUT \o <<" ">> \o IntToStr(k)) = TimeText(outs[k])
            /\ cell.isna => d = <<>>

\* the cell in, in, out: Time In 1, Time In 2 and Time Out 1
C3_Witness ==
    /\ pc = "durations"
    /\ LET ps == PiecesOf(InputCell(1))
       IN  /\ Len(ps) = 3
           /\ PIECES[ps[1]].tag = "in" /\ PIECES[ps[2]].tag = "in" /\ PIECES[ps[3]].tag = "out"
    /\ C3_Keys(punch_dicts[1]) = {Label(TIME_IN, 1), Label(TIME_IN, 2), Label(TIME_OUT, 1)}

----------------------------------------------------------------------------
(* C4 *)

DataRows == 1..(Len(TheFile.raw) - 1)
C4_Max(S) == IF S = {} THEN 0 ELSE CHOOSE x \in S : \A y \in S : y <= x
C4_MaxIn == C4_Max({Len(InsOf(InputCell(r))) : r \in DataRows})
C4_MaxOut == C4_Max({Len(OutsOf(InputCell(r))) : r \in DataRows})
C4_Numbered(kind, n) == {Str(kind \o <<" ">> \o IntToStr(i)) : i \in 1..n}
C4_ColumnsOf(df, kind) ==
    {df.columns[j] : j \in {k \in 1..Len(df.columns) : HasAt(df.columns[k].s, 1, kind \o <<" ">>)}}
C4_Once(df, label) == Cardinality({j \in 1..Len(df.columns) : df.columns[j] = label}) = 1

\* C4: the shown table of a file with a Punch Records column has the columns
\* "Time In i" for exactly the i in 1..MaxIn and "Time Out i" for exactly the
\* i in 1..MaxOut, MaxIn and MaxOut being the largest number of in-tagged and
\* out-tagged tokens in one row's cell; a row has its own tokens in the first
\* columns and blanks in the columns beyond its own count.
C4_ColumnCount ==
    TableShown =>
        /\ C4_ColumnsOf(Output, TIME_IN) = C4_Numbered(TIME_IN, C4_MaxIn)
        /\ C4_ColumnsOf(Output, TIME_OUT) = C4_Numbered(TIME_OUT, C4_MaxOut)
        /\ \A c \in C4_Numbered(TIME_IN, C4_MaxIn) \cup C4_Numbered(TIME_OUT, C4_MaxOut) :
              C4_Once(Output, c)
        /\ Len(Output.data) = Len(TheFile.raw) - 1
        /\ \A r \in DataRows :
              /\ \A i \in 1..C4_MaxIn :
                    CellOf(Output, r, Label(TIME_IN, i)).isna <=> i > Len(InsOf(InputCell(r)))
              /\ \A i \in 1..C4_MaxOut :
                    CellOf(Output, r, Label(TIME_OUT, i)).isna <=> i > Len(OutsOf(InputCell(r)))

\* two rows, the first with two in and two out tokens, the second with one in
\* token: the second row is blank under Time In 2, Time Out 1 and Time Out 2
C4_Witness ==
    /\ TableShown
    /\ Len(Output.data) = 2
    /\ C4_MaxIn = 2 /\ C4_MaxOut = 2
    /\ Len(InsOf(InputCell(2))) = 1 /\ Len(OutsOf(InputCell(2))) = 0
    /\ ~CellOf(Output, 2, Label(TIME_IN, 1)).isna
    /\ CellOf(Output, 2, Label(TIME_IN, 2)).isna
    /\ CellOf(Output, 2, Label(TIME_OUT, 1)).isna

----------------------------------------------------------------------------
(* C5, C6, C7 *)

\* pair i of the shown table: both columns exist for every j <= i
PairColumns(i) ==
    \A j \in 1..i : /\ HasColumn(Output.columns, Label(TIME_IN, j))
                    /\ HasColumn(Output.columns, Label(TIME_OUT, j))
PairIndices == {i \in 1..Len(Output.columns) : PairColumns(i)}
PairPresent(r, i) == i <= Len(InsOf(InputCell(r))) /\ i <= Len(OutsOf(InputCell(r)))
PairIn(r, i) == InsOf(InputCell(r))[i]
PairOut(r, i) == OutsOf(InputCell(r))[i]
PairValid(r, i) == PairPresent(r, i) /\ ValidTime(PairIn(r, i)) /\ ValidTime(PairOut(r, i))
\* out - in in whole minutes, the seconds floored away
PairMinutes(r, i) == (SecondsOf(PairOut(r, i)) - SecondsOf(PairIn(r, i))) \div 60
StayCell(r, i) == CellOf(Output, r, Label(STAY_DURATION, i))
TwoDigits(n) == <<DIGITS[(n \div 10) + 1], DIGITS[(n % 10) + 1]>>

\* C5: for every row and pair index i whose Time In j and Time Out j columns
\* exist for all j <= i: with both times present, valid and out not earlier
\* than in, Stay Duration i is the zero-padded HH:MM with HH = floor(d/60) and
\* MM = d mod 60 for d = out - in in whole minutes; with either one blank in
\* that row it is the empty string.
C5_StayDuration ==
    TableShown =>
        \A r \in DataRows : \A i \in PairIndices :
            /\ HasColumn(Output.columns, Label(STAY_DURATION, i))
            /\ (PairValid(r, i) /\ SecondsOf(PairOut(r, i)) >= SecondsOf(PairIn(r, i))) =>
                  StayCell(r, i) =
                      Str(TwoDigits(PairMinutes(r, i) \div 60) \o <<":">>
                          \o TwoDigits(PairMinutes(r, i) % 60))
            /\ (CellOf(Output, r, Label(TIME_IN, i)).isna
                    \/ CellOf(Output, r, Label(TIME_OUT, i)).isna) =>
                  StayCell(r, i) = Str(<<>>)

\* in 09:00:30, out 13:00:00: 3 h 59 min 30 s is shown as 03:59; and a row of
\* the same table whose pair is blank has the empty string
C5_Witness ==
    /\ TableShown
    /\ Len(Output.data) = 2
    /\ 1 \in PairIndices
    /\ PairValid(1, 1)
    /\ SecondsOf(PairOut(1, 1)) - SecondsOf(PairIn(1, 1)) = 14370
    /\ StayCell(1, 1) = Str(<<"0","3",":","5","9">>)
    /\ CellOf(Output, 2, Label(TIME_OUT, 1)).isna
    /\ StayCell(2, 1) = Str(<<>>)

\* a Stay Duration text read as a signed hours field, a colon, a minutes field:
\* its value in minutes
C6_Read(text) ==
    LET f == Split(text, ":")
        hours == IF f[1][1] = "-" THEN 0 - StrToInt(Tail(f[1])) ELSE StrToInt(f[1])
    IN  60 * hours + StrToInt(f[2])

\* C6: with both times of a pair valid and out earlier than in, no day is
\* added: Stay Duration i has a negative hours field and, read as signed hours
\* followed by minutes, is exactly out - in in whole minutes.
C6_NegativeKept ==
    TableShown =>
        \A r \in DataRows : \A i \in PairIndices :
            (PairValid(r, i) /\ SecondsOf(PairOut(r, i)) < SecondsOf(PairIn(r, i))) =>
                /\ StayCell(r, i).s # <<>>
                /\ StayCell(r, i).s[1] = "-"
                /\ C6_Read(StayCell(r, i).s) = PairMinutes(r, i)

\* out 30 minutes before in: the cell reads -1:30, which is minus 30 minutes
C6_Witness ==
    /\ TableShown
    /\ 1 \in PairIndices
    /\ PairValid(1, 1)
    /\ PairMinutes(1, 1) = 0 - 30
    /\ StayCell(1, 1) = Str(<<"-","1",":","3","0">>)

\* C7: a token of the right shape that is no time of day is extracted and
\* fills its Time In / Time Out cell; the Stay Duration of its pair is the
\* empty string; the file ends with its table and, where the workbook engine
\* of line 187 is installed, no error.
C7_InvalidTimeKept ==
    (Finished /\ HasPunchHeader /\ \E r \in DataRows : \E p \in 1..Len(PiecesOf(InputCell(r))) :
                    LET q == PiecesOf(InputCell(r))[p]
                    IN  PIECES[q].tag # "none" /\ ~ValidTime(q)) =>
        /\ xlsxwriter => tabs[1].error = ""
        /\ tabs[1].error \in {"", ERR_NO_ENGINE}
        /\ TableShown
        /\ \A r \in DataRows :
              /\ \A i \in 1..Len(InsOf(InputCell(r))) :
                    LET p == InsOf(InputCell(r))[i]
                    IN  ~ValidTime(p) =>
                           /\ CellOf(Output, r, Label(TIME_IN, i)) = Str(TimeText(p))
                           /\ HasColumn(Output.columns, Label(STAY_DURATION, i)) =>
                                  StayCell(r, i) = Str(<<>>)
              /\ \A i \in 1..Len(OutsOf(InputCell(r))) :
                    LET p == OutsOf(InputCell(r))[i]
                    IN  ~ValidTime(p) =>
                           /\ CellOf(Output, r, Label(TIME_OUT, i)) = Str(TimeText(p))
                           /\ HasColumn(Output.columns, Label(STAY_DURATION, i)) =>
                                  StayCell(r, i) = Str(<<>>)

\* 99:99:99(in) with a valid out: Time In 1 holds 99:99:99, Stay Duration 1 is empty
C7_Witness ==
    /\ TableShown
    /\ Len(Output.data) >= 1
    /\ PairPresent(1, 1)
    /\ ~ValidTime(PairIn(1, 1)) /\ ValidTime(PairOut(1, 1))
    /\ CellOf(Output, 1, Label(TIME_IN, 1)) = Str(<<"9","9",":","9","9",":","9","9">>)
    /\ HasColumn(Output.columns, Label(STAY_DURATION, 1))
    /\ StayCell(1, 1) = Str(<<>>)

----------------------------------------------------------------------------
(* C1 *)

\* the three ways a file fails: unreadable, no header row among the first 10
\* rows, no column named Punch Records under the header row found
C1_NoHeader(file) == C2_Candidates(file.raw) = {}
C1_NoColumn(file) ==
    LET cands == C2_Candidates(file.raw)
        h == CHOOSE i \in cands : \A k \in cands : i <= k
        header == file.raw[h + 1]
    IN  ~\E j \in 1..Len(header) : ~header[j].isna /\ Strip(header[j].s) = PUNCH_RECORDS
C1_Fails(file) == ~file.readable \/ C1_NoHeader(file) \/ C1_NoColumn(file)

\* the cleaned table of a file processed on its own
C1_Alone(file) ==
    ReorderColumns(AddStayDurations(ExpandPunches(
        CleanData(file.raw, find_header_row(file.raw)))))

\* C1: whatever files of a batch fail, the loop reaches every file: the tab of
\* each failing file ends with an error message and neither table nor
\* download, the tab of every other file with the table and the download it
\* has when processed alone (stated of installations that have the workbook
\* engine of line 187).
C1_Isolation ==
    xlsxwriter =>
    /\ pc = "idle" => Len(tabs) = Len(uploaded_files)
    /\ \A i \in 1..Len(tabs) :
          (i < idx \/ pc = "idle") =>
              LET file == uploaded_files[i]
              IN  /\ tabs[i].name = file.name
                  /\ IF C1_Fails(file)
                     THEN /\ tabs[i].error # ""
                          /\ tabs[i].table = <<>>
                          /\ tabs[i].download = <<>>
                     ELSE /\ tabs[i].error = ""
                          /\ tabs[i].table = <<C1_Alone(file)>>
                          /\ tabs[i].download = <<C1_Alone(file)>>

----------------------------------------------------------------------------
(* C9 *)

\* C9: the session's file list is the one the user's most recent upload or
\* Close set: after an upload the uploaded files; after a Close it is empty on
\* every later run, and no file is processed, until the next upload.
C9_MostRecentAction ==
    /\ (last_action.kind = "upload" /\ pc = "idle") =>
          [i \in 1..Len(uploaded_files) |-> [uploaded_files[i] EXCEPT !.eof = FALSE]]
              = last_action.files
    /\ last_action.kind = "close" =>
          /\ uploaded_files = <<>>
          /\ pc \in {"idle", "rerun"}
          /\ tabs = <<>>

----------------------------------------------------------------------------
(* C8, C10 *)

\* the names Time In N, Time Out N, Stay Duration N, with N a number and
\* nothing after it
C8_IsKind(s, kind) ==
    /\ HasAt(s, 1, kind \o <<" ">>)
    /\ Len(s) > Len(kind) + 1
    /\ \A p \in (Len(kind) + 2)..Len(s) : IsDigit(s[p])
C8_IsPunch(c) == C8_IsKind(c.s, TIME_IN) \/ C8_IsKind(c.s, TIME_OUT) \/ C8_IsKind(c.s, STAY_DURATION)
C8_Rank(c) ==
    IF C8_IsKind(c.s, TIME_IN) THEN 1 ELSE IF C8_IsKind(c.s, TIME_OUT) THEN 2 ELSE 3
C8_Kind(c) == PUNCH_KINDS[C8_Rank(c)]
C8_Index(c) == StrToInt(SubSeq(c.s, Len(C8_Kind(c)) + 2, Len(c.s)))
\* the columns of the cleaned table that stay: all but Punch Records
C8_CleanedColumns == DropColumn(CleanData(df_raw, header_row_idx), PUNCH_RECORDS).columns

\* C8: in the shown table every fixed column (one not named Time In N, Time
\* Out N or Stay Duration N) comes before every punch column, the fixed
\* columns are in their order of the cleaned table, and the punch columns are
\* in ascending numeric order of N, within one N as Time In, Time Out, Stay
\* Duration.
C8_ColumnOrder ==
    TableShown =>
        LET cols == Output.columns
        IN  /\ \A j, k \in 1..Len(cols) :
                  (~C8_IsPunch(cols[j]) /\ C8_IsPunch(cols[k])) => j < k
            /\ SelectSeq(cols, LAMBDA c : ~C8_IsPunch(c))
                  = SelectSeq(C8_CleanedColumns, LAMBDA c : ~C8_IsPunch(c))
            /\ \A j, k \in 1..Len(cols) :
                  (j < k /\ C8_IsPunch(cols[j]) /\ C8_IsPunch(cols[k])) =>
                      \/ C8_Index(cols[j]) < C8_Index(cols[k])
                      \/ /\ C8_Index(cols[j]) = C8_Index(cols[k])
                         /\ C8_Rank(cols[j]) < C8_Rank(cols[k])

C10_Column(df, j) == <<df.columns[j], [r \in 1..Len(df.data) |-> df.data[r][j]]>>
C10_Count(df, col) == Cardinality({j \in 1..Len(df.columns) : C10_Column(df, j) = col})

\* C10: the reordering step permutes the columns: every column of the table
\* just before it is in the table just after it exactly once, with the same
\* cells, and there is no other column.
C10_OnlyPermutes ==
    [][pc = "reorder" =>
          /\ Len(df_clean'.columns) = Len(df_clean.columns)
          /\ \A j \in 1..Len(df_clean.columns) :
                C10_Count(df_clean', C10_Column(df_clean, j)) = 1]_vars

====
